---- MODULE Spec2Model ----
(***************************************************************************)
(* A model of patternMatching.c: the brute force and Karp-Rabin searches,  *)
(* the rolling hash (calculateHash, rehash), verifyMatch and the command   *)
(* line driver (main, readSequence).                                       *)
(*                                                                         *)
(* The hash arithmetic of the source is done in `long long`.  The values   *)
(* it computes exceed 2^31, so a long long is modelled as a sign and a     *)
(* magnitude held as a little-endian sequence of 15-bit limbs; + - * and   *)
(* % MOD are computed on that representation, with C's semantics (the      *)
(* remainder takes the sign of the dividend).                              *)
(***************************************************************************)
EXTENDS Integers, Sequences, FiniteSets

\* #define MOD INT_MAX
MOD == 2147483647

\* #define N 512000
N == 512000

-----------------------------------------------------------------------------
(* long long arithmetic *)

LimbBase == 2 ^ 15

\* the canonical magnitude of a natural number below 2^31
RECURSIVE Limbs(_)
Limbs(n) == IF n = 0 THEN <<>> ELSE <<n % LimbBase>> \o Limbs(n \div LimbBase)

\* drop the most significant limbs that are zero
RECURSIVE Trim(_)
Trim(a) == IF a = <<>> THEN <<>>
           ELSE IF a[Len(a)] = 0 THEN Trim(SubSeq(a, 1, Len(a) - 1))
           ELSE a

LimbAt(a, k) == IF k <= Len(a) THEN a[k] ELSE 0

RECURSIVE MagAddFrom(_, _, _, _)
MagAddFrom(a, b, k, carry) ==
    IF k > Len(a) /\ k > Len(b)
    THEN (IF carry = 0 THEN <<>> ELSE <<carry>>)
    ELSE LET x == LimbAt(a, k) + LimbAt(b, k) + carry
         IN  <<x % LimbBase>> \o MagAddFrom(a, b, k + 1, x \div LimbBase)

MagAdd(a, b) == MagAddFrom(a, b, 1, 0)

\* a - b for a >= b
RECURSIVE MagSubFrom(_, _, _, _)
MagSubFrom(a, b, k, borrow) ==
    IF k > Len(a) THEN <<>>
    ELSE LET x == a[k] - LimbAt(b, k) - borrow
         IN  IF x < 0 THEN <<x + LimbBase>> \o MagSubFrom(a, b, k + 1, 1)
                      ELSE <<x>> \o MagSubFrom(a, b, k + 1, 0)

MagSub(a, b) == Trim(MagSubFrom(a, b, 1, 0))

\* a * c for 0 <= c < LimbBase
RECURSIVE MagMulFrom(_, _, _, _)
MagMulFrom(a, c, k, carry) ==
    IF k > Len(a) THEN Limbs(carry)
    ELSE LET x == a[k] * c + carry
         IN  <<x % LimbBase>> \o MagMulFrom(a, c, k + 1, x \div LimbBase)

MagMul(a, c) == Trim(MagMulFrom(a, c, 1, 0))

\* a < b, both canonical
RECURSIVE MagLessFrom(_, _, _)
MagLessFrom(a, b, k) ==
    IF k = 0 THEN FALSE
    ELSE IF a[k] # b[k] THEN a[k] < b[k]
    ELSE MagLessFrom(a, b, k - 1)

MagLess(a, b) == IF Len(a) # Len(b) THEN Len(a) < Len(b)
                 ELSE MagLessFrom(a, b, Len(a))

\* (2 * r) mod MOD and (r + l) mod MOD for r, l in [0, MOD), without leaving
\* the 31-bit range
DblMod(r) == IF r >= MOD - r THEN r - (MOD - r) ELSE r + r
AddMod(r, l) == IF r >= MOD - l THEN r - (MOD - l) ELSE r + l

\* r * 2^bits mod MOD; each doubling is evaluated before the next is begun
RECURSIVE ShiftMod(_, _)
ShiftMod(r, bits) ==
    IF bits = 0 THEN r
    ELSE LET d == DblMod(r)
         IN  IF d >= 0 THEN ShiftMod(d, bits - 1) ELSE 0

\* the remainder of a magnitude by MOD: long division, most significant limb
\* first (the test on s, like the one on d above, only orders the evaluation)
RECURSIVE MagModFrom(_, _, _)
MagModFrom(a, k, r) ==
    IF k = 0 THEN r
    ELSE LET s == AddMod(ShiftMod(r, 15), a[k])
         IN  IF s >= 0 THEN MagModFrom(a, k - 1, s) ELSE 0

MagMod(a) == MagModFrom(a, Len(a), 0)

\* a long long: sign and magnitude; zero is never negative
LL(neg, mag) == [neg |-> neg /\ mag # <<>>, mag |-> mag]
LLInt(n) == IF n < 0 THEN LL(TRUE, Limbs(-n)) ELSE LL(FALSE, Limbs(n))

LLAdd(x, y) ==
    IF x.neg = y.neg THEN LL(x.neg, MagAdd(x.mag, y.mag))
    ELSE IF MagLess(x.mag, y.mag) THEN LL(y.neg, MagSub(y.mag, x.mag))
    ELSE LL(x.neg, MagSub(x.mag, y.mag))

LLSub(x, y) == LLAdd(x, LL(~y.neg, y.mag))

\* x * c for a symbol code or small factor c >= 0
LLMul(x, c) == LL(x.neg, MagMul(x.mag, c))

\* x % MOD as C computes it: the result has the sign of x
LLMod(x) == LL(x.neg, Limbs(MagMod(x.mag)))

-----------------------------------------------------------------------------
(* calculateHash *)

\* (long long)str[i] * base
HashProd(c, base) == LLMul(base, c)

\* hash + ((long long)str[i] * base) % MOD
HashSum(hash, c, base) == LLAdd(hash, LLMod(HashProd(c, base)))

\* hash = (hash + ((long long)str[i] * base) % MOD) % MOD
HashAcc(hash, c, base) == LLMod(HashSum(hash, c, base))

\* base * 2
BaseDouble(base) == LLMul(base, 2)

\* faulty variant: the weight is not reduced
NextBaseUnreduced(base) == BaseDouble(base)

\* base = (base * 2) % MOD
NextBase(base) == LLMod(BaseDouble(base))

\* the loop of calculateHash from index i down to 0; str is 0-indexed in C.
\* (The test on h and b only makes TLC evaluate them before it recurses.)
RECURSIVE CalcLoop(_, _, _, _)
CalcLoop(str, i, hash, base) ==
    IF i < 0 THEN hash
    ELSE LET h == HashAcc(hash, str[i + 1], base)
             b == IF i > 0 THEN NextBase(base) ELSE base
         IN  IF h.neg \in BOOLEAN /\ b.neg \in BOOLEAN
             THEN CalcLoop(str, i - 1, h, b)
             ELSE hash

calculateHash(str, len) == CalcLoop(str, len - 1, LLInt(0), LLInt(1))

-----------------------------------------------------------------------------
(* rehash *)

\* powerOf2 * 2
PowDouble(powerOf2) == LLMul(powerOf2, 2)

\* powerOf2 = (powerOf2 * 2) % MOD
PowStep(powerOf2) == LLMod(PowDouble(powerOf2))

\* faulty variant: one doubling too many
PowGuardLong(i, patternLen) == i < patternLen

\* i < patternLen - 1
PowGuard(i, patternLen) == i < patternLen - 1

\* for (i = 0; i < patternLen - 1; i++)
\* (the test on p only makes TLC evaluate it before it recurses)
RECURSIVE PowLoop(_, _, _)
PowLoop(i, patternLen, powerOf2) ==
    IF PowGuard(i, patternLen)
    THEN LET p == PowStep(powerOf2)
         IN  IF p.neg \in BOOLEAN THEN PowLoop(i + 1, patternLen, p) ELSE p
    ELSE powerOf2

\* (long long)oldChar * powerOf2
RehashProd(oldChar, powerOf2) == LLMul(powerOf2, oldChar)

\* newHash = oldHash - ((long long)oldChar * powerOf2) % MOD
RehashSub(oldChar, oldHash, powerOf2) ==
    LLSub(oldHash, LLMod(RehashProd(oldChar, powerOf2)))

\* faulty variant: no correction of a negative difference
RehashNoFix(newHash) == newHash

\* if (newHash < 0) newHash += MOD
RehashFix(newHash) == IF newHash.neg THEN LLAdd(newHash, LLInt(MOD)) ELSE newHash

\* faulty variant: the new symbol is not appended
RehashShiftNoChar(newHash, newChar) == LLMul(newHash, 2)

\* newHash * 2 + newChar
RehashShift(newHash, newChar) == LLAdd(LLMul(newHash, 2), LLInt(newChar))

\* newHash = (newHash * 2 + newChar) % MOD
RehashFinal(newHash, newChar) == LLMod(RehashShift(newHash, newChar))

rehash(oldChar, oldHash, newChar, patternLen) ==
    RehashFinal(RehashFix(RehashSub(oldChar, oldHash,
                                    PowLoop(0, patternLen, LLInt(1)))),
                newChar)

-----------------------------------------------------------------------------
(* bounds of the inputs *)

\* exhaustive inputs: every text up to MaxTextLen, every pattern up to MaxPatLen
MaxTextLen == 3
MaxPatLen == 2

\* long inputs, whose fingerprints exceed MOD before reduction
LongPatLen == 27
LongTextLen == LongPatLen + 2

\* window lengths of the hash computations
MaxWindow == 60

\* argument counts of the command line
MaxArgc == 5

\* 'A', 'C', 'G', 'T': the symbols readSequence stores
Alphabet == {65, 67, 71, 84}

Seqs(S, n) == UNION {[1..k -> S] : k \in 0..n}

Periodic(seed, len) == [k \in 1..len |-> seed[((k - 1) % Len(seed)) + 1]]

Seeds(S) == [1..1 -> S] \cup [1..2 -> S]

-----------------------------------------------------------------------------
(* state *)

VARIABLES
    dnaSeq, patSeq,             \* the text and pattern buffers given to the searches
    pc,                         \* position in bruteForceSearch / karpRabinSearch
    bfI, bfJ, bfMatches,        \* bruteForceSearch: i, j, matches
    krI, krMatches,             \* karpRabinSearch: i, matches
    krPatternHash, krTextHash,  \* karpRabinSearch: patternHash, textHash
    textReads, patReads,        \* indices at which text / pattern have been read
    hashCalls,                  \* calls of calculateHash made by karpRabinSearch
    hStr, hLen, hMode,          \* hash run: the sequence, the window length, the source of oldHash
    hPc, hI,                    \* hash run: position, loop index
    hHash, hBase,               \* calculateHash: hash, base
    hOld, hPow, hNew,           \* rehash: oldHash, powerOf2, newHash
    interm,                     \* the products, sums and differences the last step computed
    argc, algorithm,            \* main: argument count, argv[1]
    dnaFile, patternFile,       \* main: the two files (see readSequence)
    mPc, allocOk,               \* main: position, whether both malloc calls succeeded
    dnaLen, patLen,             \* main: the lengths readSequence returned
    called, status, printed     \* main: the search invoked, the exit status, the messages

searchVars == <<dnaSeq, patSeq, pc, bfI, bfJ, bfMatches, krI, krMatches,
                krPatternHash, krTextHash, textReads, patReads, hashCalls>>
hashVars == <<hStr, hLen, hMode, hPc, hI, hHash, hBase, hOld, hPow, hNew, interm>>
mainVars == <<argc, algorithm, dnaFile, patternFile, mPc, allocOk, dnaLen, patLen,
              called, status, printed>>
vars == <<searchVars, hashVars, mainVars>>

-----------------------------------------------------------------------------
(* bruteForceSearch *)

\* faulty variant: the last offset is left out
BFInRangeStrict(i, textLen, patternLen) == i < textLen - patternLen

\* faulty variant: the pattern length is forgotten
BFInRangeText(i, textLen, patternLen) == i < textLen

\* i <= textLen - patternLen
BFInRange(i, textLen, patternLen) == i <= textLen - patternLen

\* faulty variant: text[i + j] == pattern[j] is evaluated before j < patternLen
BFReadsEager(i, j, patternLen) == [text |-> {i + j}, pattern |-> {j}]

\* the indices one evaluation of `j < patternLen && text[i + j] == pattern[j]` reads
BFReads(i, j, patternLen) ==
    IF j < patternLen THEN [text |-> {i + j}, pattern |-> {j}]
    ELSE [text |-> {}, pattern |-> {}]

InBounds(rd, textLen, patternLen) ==
    rd.text \subseteq 0..(textLen - 1) /\ rd.pattern \subseteq 0..(patternLen - 1)

\* for (i = 0; i <= textLen - patternLen; i++) { j = 0; ...
BFFor ==
    /\ pc = "bf_for"
    /\ IF BFInRange(bfI, Len(dnaSeq), Len(patSeq))
       THEN bfJ' = 0 /\ pc' = "bf_while"
       ELSE bfJ' = bfJ /\ pc' = "kr_entry"    \* return matches
    /\ UNCHANGED <<dnaSeq, patSeq, bfI, bfMatches, krI, krMatches, krPatternHash,
                   krTextHash, textReads, patReads, hashCalls>>
    /\ UNCHANGED <<hashVars, mainVars>>

\* one evaluation of the while condition; on exit, `if (j == patternLen) matches++`
\* and the i++ of the for loop.  A read outside the buffers is undefined
\* behaviour: the run leaves the program's defined behaviours (pc = "ub").
BFWhile ==
    /\ pc = "bf_while"
    /\ LET rd == BFReads(bfI, bfJ, Len(patSeq))
       IN  /\ textReads' = textReads \cup rd.text
           /\ patReads' = patReads \cup rd.pattern
           /\ IF ~InBounds(rd, Len(dnaSeq), Len(patSeq))
              THEN pc' = "ub" /\ UNCHANGED <<bfI, bfJ, bfMatches>>
              ELSE IF bfJ < Len(patSeq) /\ dnaSeq[bfI + bfJ + 1] = patSeq[bfJ + 1]
              THEN bfJ' = bfJ + 1 /\ pc' = "bf_while" /\ UNCHANGED <<bfI, bfMatches>>
              ELSE /\ bfMatches' = IF bfJ = Len(patSeq) THEN bfMatches + 1 ELSE bfMatches
                   /\ bfI' = bfI + 1
                   /\ pc' = "bf_for"
                   /\ bfJ' = bfJ
    /\ UNCHANGED <<dnaSeq, patSeq, krI, krMatches, krPatternHash, krTextHash, hashCalls>>
    /\ UNCHANGED <<hashVars, mainVars>>

-----------------------------------------------------------------------------
(* verifyMatch *)

\* the loop of verifyMatch from index i: the value returned and the number of
\* symbol pairs read
RECURSIVE VerifyLoop(_, _, _, _, _)
VerifyLoop(text, pattern, pos, patternLen, i) ==
    IF i < patternLen
    THEN IF text[pos + i + 1] # pattern[i + 1]
         THEN [ret |-> 0, reads |-> i + 1]
         ELSE VerifyLoop(text, pattern, pos, patternLen, i + 1)
    ELSE [ret |-> 1, reads |-> i]

\* faulty variant: the fingerprint is trusted
verifyMatchAlways(text, pattern, pos, patternLen) == 1

verifyMatch(text, pattern, pos, patternLen) ==
    VerifyLoop(text, pattern, pos, patternLen, 0).ret

-----------------------------------------------------------------------------
(* karpRabinSearch *)

\* if (patternLen > textLen) return 0;
KRTooLong(textLen, patternLen) == patternLen > textLen

\* faulty variant: the last window is left out
KRInRangeStrict(i, textLen, patternLen) == i < textLen - patternLen

\* i <= textLen - patternLen
KRInRange(i, textLen, patternLen) == i <= textLen - patternLen

\* patternHash == textHash && verifyMatch(text, pattern, pos, patternLen)
KRMatch(patternHash, textHash, text, pattern, pos, patternLen) ==
    patternHash = textHash /\ verifyMatch(text, pattern, pos, patternLen) # 0

\* the indices the condition above reads: none when the fingerprints differ
KRMatchReads(patternHash, textHash, text, pattern, pos, patternLen) ==
    IF patternHash = textHash
    THEN LET n == VerifyLoop(text, pattern, pos, patternLen, 0).reads
         IN  [text |-> {pos + k : k \in 0..(n - 1)}, pattern |-> 0..(n - 1)]
    ELSE [text |-> {}, pattern |-> {}]

\* the early return, or the two full computations of lines 174-175
KREntry ==
    /\ pc = "kr_entry"
    /\ IF KRTooLong(Len(dnaSeq), Len(patSeq))
       THEN /\ pc' = "done"                    \* return 0
            /\ UNCHANGED <<krPatternHash, krTextHash, textReads, patReads, hashCalls>>
       ELSE /\ krPatternHash' = calculateHash(patSeq, Len(patSeq))
            /\ krTextHash' = calculateHash(dnaSeq, Len(patSeq))
            /\ patReads' = patReads \cup 0..(Len(patSeq) - 1)
            /\ textReads' = textReads \cup 0..(Len(patSeq) - 1)
            /\ hashCalls' = hashCalls + 2
            /\ pc' = "kr_first"
    /\ UNCHANGED <<dnaSeq, patSeq, bfI, bfJ, bfMatches, krI, krMatches>>
    /\ UNCHANGED <<hashVars, mainVars>>

\* the check of the first window, then i = 1
KRFirst ==
    /\ pc = "kr_first"
    /\ LET rd == KRMatchReads(krPatternHash, krTextHash, dnaSeq, patSeq, 0, Len(patSeq))
       IN  /\ textReads' = textReads \cup rd.text
           /\ patReads' = patReads \cup rd.pattern
    /\ krMatches' = IF KRMatch(krPatternHash, krTextHash, dnaSeq, patSeq, 0, Len(patSeq))
                    THEN krMatches + 1 ELSE krMatches
    /\ krI' = 1
    /\ pc' = "kr_for"
    /\ UNCHANGED <<dnaSeq, patSeq, bfI, bfJ, bfMatches, krPatternHash, krTextHash, hashCalls>>
    /\ UNCHANGED <<hashVars, mainVars>>

\* the loop test and textHash = rehash(text[i - 1], textHash, text[i + patternLen - 1], patternLen)
KRFor ==
    /\ pc = "kr_for"
    /\ IF KRInRange(krI, Len(dnaSeq), Len(patSeq))
       THEN /\ krTextHash' = rehash(dnaSeq[krI], krTextHash,
                                    dnaSeq[krI + Len(patSeq)], Len(patSeq))
            /\ textReads' = textReads \cup {krI - 1, krI + Len(patSeq) - 1}
            /\ pc' = "kr_check"
       ELSE /\ pc' = "done"                    \* return matches
            /\ UNCHANGED <<krTextHash, textReads>>
    /\ UNCHANGED <<dnaSeq, patSeq, bfI, bfJ, bfMatches, krI, krMatches, krPatternHash,
                   patReads, hashCalls>>
    /\ UNCHANGED <<hashVars, mainVars>>

\* the check of window i, then i++
KRCheck ==
    /\ pc = "kr_check"
    /\ LET rd == KRMatchReads(krPatternHash, krTextHash, dnaSeq, patSeq, krI, Len(patSeq))
       IN  /\ textReads' = textReads \cup rd.text
           /\ patReads' = patReads \cup rd.pattern
    /\ krMatches' = IF KRMatch(krPatternHash, krTextHash, dnaSeq, patSeq, krI, Len(patSeq))
                    THEN krMatches + 1 ELSE krMatches
    /\ krI' = krI + 1
    /\ pc' = "kr_for"
    /\ UNCHANGED <<dnaSeq, patSeq, bfI, bfJ, bfMatches, krPatternHash, krTextHash, hashCalls>>
    /\ UNCHANGED <<hashVars, mainVars>>

-----------------------------------------------------------------------------
(* calculateHash and rehash, statement by statement *)

\* one iteration of `for (i = len - 1; i >= 0; i--)` in calculateHash
CalcIter ==
    /\ hPc = "calc" /\ hI >= 0
    /\ hHash' = HashAcc(hHash, hStr[hI + 1], hBase)
    /\ hBase' = IF hI > 0 THEN NextBase(hBase) ELSE hBase
    /\ interm' = {HashProd(hStr[hI + 1], hBase), HashSum(hHash, hStr[hI + 1], hBase)}
                     \cup (IF hI > 0 THEN {BaseDouble(hBase)} ELSE {})
    /\ hI' = hI - 1
    /\ UNCHANGED <<hStr, hLen, hMode, hPc, hOld, hPow, hNew>>
    /\ UNCHANGED <<searchVars, mainVars>>

\* `return hash`; the caller passes it to rehash as oldHash
CalcReturn ==
    /\ hPc = "calc" /\ hI < 0
    /\ hOld' = hHash
    /\ hPow' = LLInt(1) /\ hI' = 0 /\ hPc' = "pow"
    /\ interm' = {}
    /\ UNCHANGED <<hStr, hLen, hMode, hHash, hBase, hNew>>
    /\ UNCHANGED <<searchVars, mainVars>>

\* one iteration of the loop of rehash that computes 2^(patternLen-1)
PowIter ==
    /\ hPc = "pow" /\ PowGuard(hI, hLen)
    /\ hPow' = PowStep(hPow)
    /\ interm' = {PowDouble(hPow)}
    /\ hI' = hI + 1
    /\ UNCHANGED <<hStr, hLen, hMode, hPc, hHash, hBase, hOld, hNew>>
    /\ UNCHANGED <<searchVars, mainVars>>

\* newHash = oldHash - ((long long)oldChar * powerOf2) % MOD
RehashSubtract ==
    /\ hPc = "pow" /\ ~PowGuard(hI, hLen)
    /\ hNew' = RehashSub(hStr[1], hOld, hPow)
    /\ interm' = {RehashProd(hStr[1], hPow), RehashSub(hStr[1], hOld, hPow)}
    /\ hPc' = "fix"
    /\ UNCHANGED <<hStr, hLen, hMode, hI, hHash, hBase, hOld, hPow>>
    /\ UNCHANGED <<searchVars, mainVars>>

\* if (newHash < 0) newHash += MOD
RehashCorrect ==
    /\ hPc = "fix"
    /\ hNew' = RehashFix(hNew)
    /\ interm' = {RehashFix(hNew)}
    /\ hPc' = "shift"
    /\ UNCHANGED <<hStr, hLen, hMode, hI, hHash, hBase, hOld, hPow>>
    /\ UNCHANGED <<searchVars, mainVars>>

\* newHash = (newHash * 2 + newChar) % MOD; return newHash
RehashReturn ==
    /\ hPc = "shift"
    /\ hNew' = RehashFinal(hNew, hStr[hLen + 1])
    /\ interm' = {LLMul(hNew, 2), RehashShift(hNew, hStr[hLen + 1])}
    /\ hPc' = "done"
    /\ UNCHANGED <<hStr, hLen, hMode, hI, hHash, hBase, hOld, hPow>>
    /\ UNCHANGED <<searchVars, mainVars>>

-----------------------------------------------------------------------------
(* readSequence and main *)

\* A file is -1 when fopen fails, and otherwise the number of alphabet
\* characters before its first newline or its end: the loop of readSequence
\* stores exactly those, until length reaches maxSize - 1.
readSequence(file, maxSize) ==
    IF file = -1 THEN -1
    ELSE IF file < maxSize - 1 THEN file ELSE maxSize - 1

\* the messages readSequence prints
readMessages(file, maxSize) ==
    IF file = -1 THEN {"cannot open"}
    ELSE IF readSequence(file, maxSize) = maxSize - 1 THEN {"truncated"} ELSE {}

\* strcmp(algorithm, "-bf") != 0 && strcmp(algorithm, "-kr") != 0
InvalidAlgorithm(alg) == alg # "-bf" /\ alg # "-kr"

\* dnaLen >= N - 1, patLen >= N - 1
TooLarge(len) == len >= N - 1

\* faulty variant: the empty pattern is let through
EmptyPatternNever(len) == FALSE

\* patLen == 0
EmptyPattern(len) == len = 0

Fail(messages) ==
    /\ printed' = printed \cup messages
    /\ status' = 1
    /\ mPc' = "exit"

\* if (argc != 4) ...; the validation of argv[1]
MainArgs ==
    /\ mPc = "args"
    /\ IF argc # 4 THEN Fail({"invalid number of arguments", "usage"})
       ELSE IF InvalidAlgorithm(algorithm) THEN Fail({"invalid algorithm", "usage"})
       ELSE mPc' = "alloc" /\ UNCHANGED <<printed, status>>
    /\ UNCHANGED <<argc, algorithm, dnaFile, patternFile, allocOk, dnaLen, patLen, called>>
    /\ UNCHANGED <<searchVars, hashVars>>

\* the two malloc calls, either of which may return NULL
MainAlloc ==
    /\ mPc = "alloc"
    /\ \E ok \in BOOLEAN :
          /\ allocOk' = ok
          /\ IF ok THEN mPc' = "read_dna" /\ UNCHANGED <<printed, status>>
             ELSE Fail({"memory allocation failed"})
    /\ UNCHANGED <<argc, algorithm, dnaFile, patternFile, dnaLen, patLen, called>>
    /\ UNCHANGED <<searchVars, hashVars>>

\* dnaLen = readSequence(dnaFile, dnaSeq, N) and its two checks
MainReadDna ==
    /\ mPc = "read_dna"
    /\ dnaLen' = readSequence(dnaFile, N)
    /\ IF readSequence(dnaFile, N) = -1
       THEN Fail(readMessages(dnaFile, N) \cup {"failed to read DNA sequence file"})
       ELSE IF TooLarge(readSequence(dnaFile, N))
       THEN Fail(readMessages(dnaFile, N) \cup {"DNA sequence too large"})
       ELSE /\ printed' = printed \cup readMessages(dnaFile, N)
            /\ mPc' = "read_pat"
            /\ UNCHANGED status
    /\ UNCHANGED <<argc, algorithm, dnaFile, patternFile, allocOk, patLen, called>>
    /\ UNCHANGED <<searchVars, hashVars>>

\* patLen = readSequence(patternFile, patSeq, N) and its three checks
MainReadPattern ==
    /\ mPc = "read_pat"
    /\ patLen' = readSequence(patternFile, N)
    /\ IF readSequence(patternFile, N) = -1
       THEN Fail(readMessages(patternFile, N) \cup {"failed to read pattern file"})
       ELSE IF TooLarge(readSequence(patternFile, N))
       THEN Fail(readMessages(patternFile, N) \cup {"pattern sequence too large"})
       ELSE IF EmptyPattern(readSequence(patternFile, N))
       THEN Fail(readMessages(patternFile, N) \cup {"empty pattern"})
       ELSE /\ printed' = printed \cup readMessages(patternFile, N)
            /\ mPc' = "search"
            /\ UNCHANGED status
    /\ UNCHANGED <<argc, algorithm, dnaFile, patternFile, allocOk, dnaLen, called>>
    /\ UNCHANGED <<searchVars, hashVars>>

\* the call of the selected search
MainSearch ==
    /\ mPc = "search"
    /\ called' = IF algorithm = "-bf" THEN "bruteForceSearch"
                 ELSE IF algorithm = "-kr" THEN "karpRabinSearch"
                 ELSE called
    /\ mPc' = "print"
    /\ UNCHANGED <<argc, algorithm, dnaFile, patternFile, allocOk, dnaLen, patLen,
                   status, printed>>
    /\ UNCHANGED <<searchVars, hashVars>>

\* printf("The pattern was found: %d times\n", matches); return 0
MainPrint ==
    /\ mPc = "print"
    /\ printed' = printed \cup {"match count"}
    /\ status' = 0
    /\ mPc' = "exit"
    /\ UNCHANGED <<argc, algorithm, dnaFile, patternFile, allocOk, dnaLen, patLen, called>>
    /\ UNCHANGED <<searchVars, hashVars>>

-----------------------------------------------------------------------------
(* idle values of the parts a specification does not run *)

IdleSearch ==
    /\ dnaSeq = <<>> /\ patSeq = <<>> /\ pc = "idle"
    /\ bfI = 0 /\ bfJ = 0 /\ bfMatches = 0 /\ krI = 0 /\ krMatches = 0
    /\ krPatternHash = LLInt(0) /\ krTextHash = LLInt(0)
    /\ textReads = {} /\ patReads = {} /\ hashCalls = 0

IdleHash ==
    /\ hStr = <<>> /\ hLen = 0 /\ hMode = "idle" /\ hPc = "idle" /\ hI = 0
    /\ hHash = LLInt(0) /\ hBase = LLInt(0)
    /\ hOld = LLInt(0) /\ hPow = LLInt(0) /\ hNew = LLInt(0)
    /\ interm = {}

IdleMain ==
    /\ argc = 0 /\ algorithm = "" /\ dnaFile = -1 /\ patternFile = -1
    /\ mPc = "idle" /\ allocOk = FALSE /\ dnaLen = 0 /\ patLen = 0
    /\ called = "none" /\ status = -1 /\ printed = {}

-----------------------------------------------------------------------------
(* the searches, both run on one text and pattern *)

SmallInputs == Seqs(Alphabet, MaxTextLen) \X (Seqs(Alphabet, MaxPatLen) \ {<<>>})

LongInputs == {<<Periodic(s, LongTextLen), Periodic(t, LongPatLen)>> :
                  s \in Seeds(Alphabet), t \in Seeds(Alphabet)}

\* AAAA / AA, ATCGATCGATCG / ATCG, ACGT / TTTT
ScenarioInputs ==
    { <<Periodic(<<65>>, 4), Periodic(<<65>>, 2)>>,
      <<Periodic(<<65, 84, 67, 71>>, 12), <<65, 84, 67, 71>> >>,
      <<(<<65, 67, 71, 84>>), Periodic(<<84>>, 4)>> }

InitSearch ==
    /\ \E in \in SmallInputs \cup LongInputs \cup ScenarioInputs :
          dnaSeq = in[1] /\ patSeq = in[2]
    /\ pc = "bf_for"
    /\ bfI = 0 /\ bfJ = 0 /\ bfMatches = 0 /\ krI = 0 /\ krMatches = 0
    /\ krPatternHash = LLInt(0) /\ krTextHash = LLInt(0)
    /\ textReads = {} /\ patReads = {} /\ hashCalls = 0

Init == InitSearch /\ IdleHash /\ IdleMain

Next == BFFor \/ BFWhile \/ KREntry \/ KRFirst \/ KRFor \/ KRCheck

Spec == Init /\ [][Next]_vars

-----------------------------------------------------------------------------
(* the hash functions on windows of up to MaxWindow symbols *)

\* symbol codes: the alphabet and the ends of the range of a 7-bit char
HashCodes == Alphabet \cup {0, 127}

\* values of oldHash given to rehash directly
OldHashes == {LLInt(0), LLInt(2 ^ 30), LLInt(MOD - 1)}

\* "calc": oldHash is calculateHash of the window hStr[0 .. hLen), whose
\* successor window is hStr[1 .. hLen]; "given": oldHash is any fingerprint
InitHash ==
    /\ hLen \in 1..MaxWindow
    /\ \/ /\ hMode = "calc"
          /\ \E s \in Seeds(HashCodes) : hStr = Periodic(s, hLen + 1)
          /\ hPc = "calc" /\ hI = hLen - 1
          /\ hOld = LLInt(0) /\ hPow = LLInt(0)
       \/ /\ hMode = "given"
          /\ \E s \in [1..1 -> HashCodes] : hStr = Periodic(s, hLen + 1)
          /\ hPc = "pow" /\ hI = 0
          /\ hOld \in OldHashes /\ hPow = LLInt(1)
    /\ hHash = LLInt(0) /\ hBase = LLInt(1) /\ hNew = LLInt(0)
    /\ interm = {}

NextHash == CalcIter \/ CalcReturn \/ PowIter \/ RehashSubtract \/ RehashCorrect
               \/ RehashReturn

InitHashRun == IdleSearch /\ InitHash /\ IdleMain

SpecHash == InitHashRun /\ [][NextHash]_vars

\* the searches and the hash functions together
NextCore == BFFor \/ BFWhile \/ KREntry \/ KRFirst \/ KRFor \/ KRCheck
               \/ CalcIter \/ CalcReturn \/ PowIter \/ RehashSubtract
               \/ RehashCorrect \/ RehashReturn

InitCore == Init \/ InitHashRun

SpecCore == InitCore /\ [][NextCore]_vars

-----------------------------------------------------------------------------
(* the command line *)

Files == {-1, 0, 1, 2, N - 2, N - 1, N}

InitMain ==
    /\ argc \in 1..MaxArgc
    /\ algorithm \in {"-bf", "-kr", "-x"}
    /\ dnaFile \in Files /\ patternFile \in Files
    /\ mPc = "args" /\ allocOk = FALSE /\ dnaLen = 0 /\ patLen = 0
    /\ called = "none" /\ status = -1 /\ printed = {}

NextMain == MainArgs \/ MainAlloc \/ MainReadDna \/ MainReadPattern \/ MainSearch
               \/ MainPrint

InitMainRun == IdleSearch /\ IdleHash /\ InitMain

SpecMain == InitMainRun /\ [][NextMain]_vars

-----------------------------------------------------------------------------
(* properties *)

\* 2^63 as a magnitude: bit 3 of the fifth limb
TwoTo63 == <<0, 0, 0, 0, 8>>

\* x is representable in a signed 64-bit long long
LLFits(x) == \/ MagLess(x.mag, TwoTo63)
             \/ (x.neg /\ x.mag = TwoTo63)

\* 0 <= x < MOD
InModRange(x) == ~x.neg /\ MagLess(x.mag, Limbs(MOD))

\* the window text[pos .. pos + Len(pattern)) equals the pattern symbol for symbol
WindowEq(text, pattern, pos) ==
    \A k \in 1..Len(pattern) : text[pos + k] = pattern[k]

\* the offsets i in [0, T - P] at which the pattern occurs
MatchOffsets(text, pattern) ==
    {i \in 0..(Len(text) - Len(pattern)) : WindowEq(text, pattern, i)}

BFReturned == pc \in {"kr_entry", "kr_first", "kr_for", "kr_check", "done"}

\* C1: on every text and pattern, bruteForceSearch and karpRabinSearch return
\* the same match count.
C1_SameCount == pc = "done" => bfMatches = krMatches

\* a long pattern, found more than once, by both searches
C1_Witness ==
    /\ pc = "done" /\ Len(patSeq) >= LongPatLen
    /\ bfMatches >= 2 /\ krMatches = bfMatches

\* C2: bruteForceSearch returns the number of offsets i in [0, T - P] at which
\* text[i .. i + P) equals the pattern; overlapping occurrences all count.
C2_BruteForceCount ==
    BFReturned => bfMatches = Cardinality(MatchOffsets(dnaSeq, patSeq))

\* text AAAA, pattern AA: the occurrences at offsets 0, 1 and 2 overlap
C2_Witness ==
    /\ BFReturned /\ dnaSeq = <<65, 65, 65, 65>> /\ patSeq = <<65, 65>>
    /\ bfMatches = 3

\* C3: rehash applied to the fingerprint of a window gives the fingerprint
\* calculateHash computes on the next window.
C3_RehashIsFullHash ==
    (hPc = "done" /\ hMode = "calc")
        => hNew = calculateHash(SubSeq(hStr, 2, hLen + 1), hLen)

\* the subtraction in rehash went negative and was corrected
Corrected == LLSub(hOld, LLMod(RehashProd(hStr[1], hPow))).neg

\* a window whose weighted sum exceeds MOD, and a rehash that needed the correction
C3_Witness ==
    /\ hPc = "done" /\ hMode = "calc" /\ hLen >= 32
    /\ Corrected
    /\ hNew = calculateHash(SubSeq(hStr, 2, hLen + 1), hLen)

\* C4: karpRabinSearch increments matches at offset i only when the window at i
\* equals the pattern symbol for symbol; a collision is never counted.
C4_NoFalsePositive ==
    [][krMatches' # krMatches
          => krMatches' = krMatches + 1 /\ WindowEq(dnaSeq, patSeq, krI)]_vars

\* window CC against pattern AG: equal fingerprints, different symbols, no count
C4_Witness ==
    /\ pc = "done" /\ dnaSeq = <<67, 67>> /\ patSeq = <<65, 71>>
    /\ krTextHash = krPatternHash /\ krMatches = 0

\* C5: when patternLen > textLen both searches return 0 without error;
\* karpRabinSearch computes no fingerprint and bruteForceSearch compares nothing.
C5_PatternLongerThanText ==
    Len(patSeq) > Len(dnaSeq)
        => /\ pc \in {"bf_for", "kr_entry", "done"}
           /\ bfMatches = 0 /\ krMatches = 0
           /\ hashCalls = 0 /\ textReads = {} /\ patReads = {}

\* both searches have returned on a pattern longer than a non-empty text
C5_Witness ==
    /\ pc = "done" /\ Len(patSeq) > Len(dnaSeq) /\ Len(dnaSeq) >= 1
    /\ bfMatches = 0 /\ krMatches = 0

\* C6: every fingerprint is in [0, MOD): the running and final value of
\* calculateHash, the result of rehash for any oldHash in [0, MOD), whose
\* difference is not negative once corrected, and patternHash and textHash
\* throughout karpRabinSearch.
C6_FingerprintRange ==
    /\ InModRange(hHash)
    /\ InModRange(hOld)
    /\ hPc \in {"shift", "done"} => ~hNew.neg
    /\ hPc = "done" => InModRange(hNew)
    /\ InModRange(krPatternHash) /\ InModRange(krTextHash)

\* a rehash, of a given oldHash, whose difference was negative before the correction
C6_Witness ==
    /\ hPc = "done" /\ hMode = "given" /\ Corrected
    /\ InModRange(hNew)

\* the command line is one main accepts
Accepted ==
    /\ argc = 4
    /\ algorithm \in {"-bf", "-kr"}
    /\ dnaFile # -1 /\ patternFile # -1
    /\ dnaFile < N - 1 /\ patternFile < N - 1
    /\ patternFile >= 1

\* C7: main invokes a search only after the argument count, the mode flag, both
\* reads, both sizes and the pattern length have been accepted; otherwise it
\* exits with a non-zero status, invoking no search and printing no match count.
C7_SearchOnlyWhenAccepted ==
    /\ called # "none"
          => /\ Accepted /\ allocOk
             /\ dnaLen = dnaFile /\ patLen = patternFile /\ patLen >= 1
             /\ called = (IF algorithm = "-bf" THEN "bruteForceSearch"
                                               ELSE "karpRabinSearch")
    /\ "match count" \in printed => called # "none"
    /\ (mPc = "exit" /\ ~Accepted)
          => status # 0 /\ called = "none" /\ "match count" \notin printed

\* a run that passed every check and called karpRabinSearch
C7_Witness ==
    /\ mPc = "exit" /\ called = "karpRabinSearch" /\ status = 0
    /\ "match count" \in printed

C9_NoOverflow == \A v \in interm : LLFits(v)

\* the last iteration on a window of 58 symbols or more, where the unreduced
\* weight 2^57 times a symbol code would not fit; the product exceeds MOD
C9_Witness ==
    /\ hPc = "calc" /\ hLen >= 58 /\ hI = -1
    /\ \E v \in interm : ~InModRange(v) /\ LLFits(v)

\* C10: every index at which the searches read the text is in [0, T) and every
\* index at which they read the pattern is in [0, P).
C10_ReadsInBounds ==
    /\ textReads \subseteq 0..(Len(dnaSeq) - 1)
    /\ patReads \subseteq 0..(Len(patSeq) - 1)
    /\ pc # "ub"

\* both searches have run and read the text and the pattern up to their last symbols
C10_Witness ==
    /\ pc = "done" /\ Len(dnaSeq) > Len(patSeq)
    /\ textReads = 0..(Len(dnaSeq) - 1)
    /\ patReads = 0..(Len(patSeq) - 1)
====
